---- MODULE Spec2Model ----
(***************************************************************************)
(* Model of src/main.py: the Streamlit "AI CrewAI Workspace".              *)
(*                                                                         *)
(* State: the session memory's conversation log, the API token (from the   *)
(* environment and from the sidebar field), and a record of what the most  *)
(* recent script run did (the prompt it built, the HTTP requests it made). *)
(*                                                                         *)
(* Text values are sequences of tokens. The token "Response:" stands for   *)
(* that literal substring, " " for a run of whitespace; every other token  *)
(* is a piece of text that contains neither.                               *)
(***************************************************************************)
EXTENDS Integers, Sequences, FiniteSets, TLC

VARIABLES
    conversations,  \* st.session_state.session_memory['conversations']
    env_token,      \* os.getenv("HUGGINGFACE_API_TOKEN")
    sidebar_token,  \* the sidebar's "Hugging Face API Token" text input
    clock,          \* datetime.now(), advanced by every timestamp taken
    prompt,         \* the prompt built by the most recent Send
    http_posts,     \* requests.post calls made by the most recent handler
    http_status     \* what the most recent requests.post came back with

vars == <<conversations, env_token, sidebar_token, clock, prompt,
          http_posts, http_status>>

----------------------------------------------------------------------------
(* Bounds of the model *)

\* Exchanges appended in one session of the full specification.
MaxSends == 2

\* Exchanges appended in one session with no credential configured.
MaxHistory == 4

\* Largest limit asked of get_conversation_history in the properties.
MaxLimit == 4

----------------------------------------------------------------------------
(* Values *)

\* Python's None.
PyNone == "<None>"

\* CrewAIWorkspace._initialize_agents: the registry's keys.
AgentKeys == {"tinker", "tailor", "soldier", "spy", "mr_smiley"}

\* CrewAIWorkspace._initialize_agents: key -> Agent.name.
AgentName(key) ==
    CASE key = "tinker"    -> "Tinker"
      [] key = "tailor"    -> "Tailor"
      [] key = "soldier"   -> "Soldier"
      [] key = "spy"       -> "Spy"
      [] key = "mr_smiley" -> "Mr. Smiley"

\* What the user can type in the "Your message:" text area.
UserInputs == { <<>>, <<" ">>, <<"hello", " ">> }

\* What the user can type in the token field (empty = left blank).
SidebarTokens == { "", "hf_sidebar" }

\* What the environment variable can hold (None = unset).
EnvTokens == { PyNone, "hf_env" }

\* Status codes other than 200 the endpoint can answer with.
ErrorStatusCodes == { "404", "503" }

\* response.text of a non-200 answer.
ErrorBodies == { <<"loading">>, <<"loading", "Response:", " ", "later", " ">> }

\* generated_text values of a 200 answer: a bare completion, and the prompt
\* echoed back (it ends in "Response:") followed by the completion.
GeneratedTexts == { <<"fine">>, <<"hello", "Response:", " ", "fine">> }

\* The shapes response.json() can produce on a 200 answer.
\*   invalid      the body is not JSON: response.json() raises
\*   empty_list   []
\*   object       a JSON object, e.g. {"error": ...}
\*   list_scalar  a list whose first element is not an object
\*   list_object  a list whose first element has no generated_text
\*   list_text    [{"generated_text": <string>}]
\*   list_null    [{"generated_text": null}]
JsonResults ==
    { [shape |-> s, generated_text |-> <<>>] :
        s \in {"invalid", "empty_list", "object", "list_scalar",
               "list_object", "list_null"} }
    \cup { [shape |-> "list_text", generated_text |-> t] : t \in GeneratedTexts }

\* Everything requests.post can do: raise (timeout, DNS, refused), or return
\* a response with a status code and a body.
HttpOutcomes ==
    { [kind |-> "exception", status |-> "none", text |-> <<>>,
       json |-> [shape |-> "invalid", generated_text |-> <<>>]] }
    \cup { [kind |-> "response", status |-> s, text |-> b,
            json |-> [shape |-> "invalid", generated_text |-> <<>>]] :
             s \in ErrorStatusCodes, b \in ErrorBodies }
    \cup { [kind |-> "response", status |-> "200", text |-> <<>>, json |-> j] :
             j \in JsonResults }

\* The outcome standing for "requests.post was never called".
NoOutcome ==
    [kind |-> "none", status |-> "none", text |-> <<>>,
     json |-> [shape |-> "invalid", generated_text |-> <<>>]]

----------------------------------------------------------------------------
(* Python string operations on token sequences *)

\* "Response:" in s
Contains(s, tok) == \E i \in 1..Len(s) : s[i] = tok

\* s.strip()
RECURSIVE LStrip(_)
LStrip(s) == IF s # <<>> /\ Head(s) = " " THEN LStrip(Tail(s)) ELSE s

RECURSIVE RStrip(_)
RStrip(s) ==
    IF s # <<>> /\ s[Len(s)] = " " THEN RStrip(SubSeq(s, 1, Len(s) - 1)) ELSE s

Strip(s) == RStrip(LStrip(s))

\* s.split(tok)[-1]: what follows the last occurrence of tok (s itself when
\* tok does not occur).
SplitLast(s, tok) ==
    IF Contains(s, tok)
    THEN LET i == CHOOSE k \in 1..Len(s) :
                      s[k] = tok /\ \A j \in (k+1)..Len(s) : s[j] # tok
         IN  SubSeq(s, i + 1, Len(s))
    ELSE s

\* xs[start:] for a Python list
SliceFrom(xs, start) ==
    LET n    == Len(xs)
        from == IF start < 0
                THEN (IF n + start < 0 THEN 0 ELSE n + start)
                ELSE (IF start > n THEN n ELSE start)
    IN  SubSeq(xs, from + 1, n)

\* bool(x) for a string or None
Truthy(x) == x # PyNone /\ x # ""

----------------------------------------------------------------------------
(* HuggingFaceAPI *)

\* A Python value handed back by query_model: a str or None.
PyStr(text) == [type |-> "str", text |-> text]
PyNoneValue == [type |-> "NoneType", text |-> <<>>]

\* The message returned when no token is configured (line 100).
MissingCredentialMessage ==
    << "Hugging Face API token not configured. Please add your token to continue." >>

\* str(e) of an exception caught at line 121.
ExceptionText == << "exception text" >>

\* str(result) at line 118.
StrOfResult(json) == << IF json.shape = "empty_list" THEN "[]" ELSE "{...}" >>

\* HuggingFaceAPI.__init__ followed by the sidebar's override in main: the
\* token query_model sees.
ApiToken == IF Truthy(sidebar_token) THEN sidebar_token ELSE env_token

\* query_model without the credential check of lines 99-100.
query_model_always_posts(api_token, outcome) ==
    [ posts  |-> 1,
      status |-> IF outcome.kind = "exception" THEN "exception" ELSE outcome.status,
      value  |-> IF outcome.kind = "exception"
                 THEN PyStr(<<"Error: ">> \o ExceptionText)
                 ELSE PyStr(<<"API Error: ", outcome.status, " - ">> \o outcome.text) ]

\* query_model repeating the request once after anything but a 200.
query_model_retry(api_token, outcome) ==
    IF ~Truthy(api_token)
    THEN [value |-> PyStr(MissingCredentialMessage), posts |-> 0, status |-> "none"]
    ELSE [ posts  |-> IF outcome.kind = "response" /\ outcome.status = "200"
                      THEN 1 ELSE 2,
           status |-> IF outcome.kind = "exception" THEN "exception" ELSE outcome.status,
           value  |-> IF outcome.kind = "exception"
                      THEN PyStr(<<"Error: ">> \o ExceptionText)
                      ELSE IF outcome.status = "200"
                      THEN PyStr(<<"No response generated">>)
                      ELSE PyStr(<<"API Error: ", outcome.status, " - ">> \o outcome.text) ]

\* HuggingFaceAPI.query_model: the value returned and the number of
\* requests.post calls made, given what requests.post does when called.
query_model(api_token, outcome) ==
    IF ~Truthy(api_token)
    THEN [value |-> PyStr(MissingCredentialMessage), posts |-> 0, status |-> "none"]
    ELSE
      [ posts  |-> 1,
        status |-> IF outcome.kind = "exception" THEN "exception" ELSE outcome.status,
        value  |->
          IF outcome.kind = "exception"
          THEN PyStr(<<"Error: ">> \o ExceptionText)
          ELSE IF outcome.status = "200"
          THEN CASE outcome.json.shape = "invalid" ->
                      \* response.json() raises inside the try
                      PyStr(<<"Error: ">> \o ExceptionText)
                 [] outcome.json.shape = "list_scalar" ->
                      \* result[0].get raises AttributeError inside the try
                      PyStr(<<"Error: ">> \o ExceptionText)
                 [] outcome.json.shape = "list_object" ->
                      PyStr(<<"No response generated">>)
                 [] outcome.json.shape = "list_text" ->
                      PyStr(outcome.json.generated_text)
                 [] outcome.json.shape = "list_null" ->
                      PyNoneValue
                 [] OTHER ->
                      PyStr(StrOfResult(outcome.json))
          ELSE PyStr(<<"API Error: ", outcome.status, " - ">> \o outcome.text) ]

----------------------------------------------------------------------------
(* SessionMemory *)

\* add_conversation putting the new exchange first.
add_conversation_front(convs, now, agent, user_input, response) ==
    << [timestamp  |-> now,
        agent      |-> agent,
        user_input |-> user_input,
        response   |-> response] >> \o convs

\* add_conversation recording the agent's display name instead of its key.
add_conversation_display_name(convs, now, agent, user_input, response) ==
    Append(convs, [timestamp  |-> now,
                   agent      |-> IF agent \in AgentKeys THEN AgentName(agent) ELSE agent,
                   user_input |-> user_input,
                   response   |-> response])

\* SessionMemory.add_conversation
add_conversation(convs, now, agent, user_input, response) ==
    Append(convs, [timestamp  |-> now,
                   agent      |-> agent,
                   user_input |-> user_input,
                   response   |-> response])

\* The list comprehension [c for c in conversations if c['agent'] == agent]
FilterAgent(convs, agent) == SelectSeq(convs, LAMBDA c : c.agent = agent)

\* SessionMemory.get_conversation_history
get_conversation_history(convs, agent, limit) ==
    LET conversations_ == IF Truthy(agent) THEN FilterAgent(convs, agent) ELSE convs
    IN  SliceFrom(conversations_, -limit)

\* SessionMemory.clear_memory: the log of the fresh session memory.
clear_memory == <<>>

\* The "Clear Chat" comprehension with its condition inverted.
clear_chat_inverted(convs, selected_agent) ==
    SelectSeq(convs, LAMBDA c : c.agent = selected_agent)

\* The "Clear Chat" comprehension: every exchange of another agent.
clear_chat(convs, selected_agent) ==
    SelectSeq(convs, LAMBDA c : c.agent # selected_agent)

----------------------------------------------------------------------------
(* CrewAIWorkspace *)

NoPrompt == [agent |-> PyNone, name |-> PyNone, context |-> <<>>, user_input |-> <<>>]

\* get_agent_prompt taking its context from every agent's exchanges.
get_agent_prompt_all_agents(convs, agent_key, user_input) ==
    LET context == get_conversation_history(convs, PyNone, 3)
    IN  [agent      |-> agent_key,
         name       |-> AgentName(agent_key),
         context    |-> IF context # <<>> THEN SliceFrom(context, -2) ELSE <<>>,
         user_input |-> user_input]

\* CrewAIWorkspace.get_agent_prompt: the persona, the exchanges whose text
\* the loop writes into context_str, and the user's request.
get_agent_prompt(convs, agent_key, user_input) ==
    LET context == get_conversation_history(convs, agent_key, 3)
    IN  [agent      |-> agent_key,
         name       |-> AgentName(agent_key),
         context    |-> IF context # <<>> THEN SliceFrom(context, -2) ELSE <<>>,
         user_input |-> user_input]

\* The clean-up in main, lines 341-342.
CleanUp(response) ==
    IF Contains(response, "Response:")
    THEN Strip(SplitLast(response, "Response:"))
    ELSE response

----------------------------------------------------------------------------
(* main: the handlers of one script run *)

Init ==
    /\ conversations = <<>>
    /\ env_token \in EnvTokens
    /\ sidebar_token = ""
    /\ clock = 0
    /\ prompt = NoPrompt
    /\ http_posts = 0
    /\ http_status = "none"

\* "Send Message" pressed with selected_agent and user_input, when
\* requests.post (if called) behaves as outcome.
SendMessage(selected_agent, user_input, outcome) ==
    IF Strip(user_input) = <<>>
    THEN /\ prompt' = NoPrompt
         /\ http_posts' = 0
         /\ http_status' = "none"
         /\ UNCHANGED <<conversations, env_token, sidebar_token, clock>>
    ELSE LET built == get_agent_prompt(conversations, selected_agent, user_input)
             q     == query_model(ApiToken, outcome)
         IN  /\ prompt' = built
             /\ http_posts' = q.posts
             /\ http_status' = q.status
             /\ IF q.value.type # "str"
                THEN \* "Response:" in response raises TypeError; the script
                     \* run ends before add_conversation
                     UNCHANGED <<conversations, clock>>
                ELSE /\ conversations' =
                          add_conversation(conversations, clock + 1, selected_agent,
                                           user_input, CleanUp(q.value.text))
                     /\ clock' = clock + 1
             /\ UNCHANGED <<env_token, sidebar_token>>

\* "Clear Chat" pressed with selected_agent.
ClearChat(selected_agent) ==
    /\ conversations' = clear_chat(conversations, selected_agent)
    /\ prompt' = NoPrompt
    /\ http_posts' = 0
    /\ http_status' = "none"
    /\ UNCHANGED <<env_token, sidebar_token, clock>>

\* "Clear Memory" pressed.
ClearMemory ==
    /\ conversations' = clear_memory
    /\ prompt' = NoPrompt
    /\ http_posts' = 0
    /\ http_status' = "none"
    /\ UNCHANGED <<env_token, sidebar_token, clock>>

\* The token field edited.
EnterToken(api_token) ==
    /\ sidebar_token' = api_token
    /\ prompt' = NoPrompt
    /\ http_posts' = 0
    /\ http_status' = "none"
    /\ UNCHANGED <<conversations, env_token, clock>>

----------------------------------------------------------------------------
(* The user's and the endpoint's choices *)

BlankInputs == { u \in UserInputs : Strip(u) = <<>> }
NonBlankInputs == UserInputs \ BlankInputs

SendBlank ==
    \E a \in AgentKeys, u \in BlankInputs : SendMessage(a, u, NoOutcome)

SendNoCredential ==
    /\ ~Truthy(ApiToken)
    /\ \E a \in AgentKeys, u \in NonBlankInputs : SendMessage(a, u, NoOutcome)

SendHttp200 ==
    /\ Truthy(ApiToken)
    /\ \E a \in AgentKeys, u \in NonBlankInputs :
         \E o \in { x \in HttpOutcomes : x.kind = "response" /\ x.status = "200" } :
            SendMessage(a, u, o)

SendHttpError ==
    /\ Truthy(ApiToken)
    /\ \E a \in AgentKeys, u \in NonBlankInputs :
         \E o \in { x \in HttpOutcomes : x.kind = "response" /\ x.status # "200" } :
            SendMessage(a, u, o)

SendTransportFailure ==
    /\ Truthy(ApiToken)
    /\ \E a \in AgentKeys, u \in NonBlankInputs :
         \E o \in { x \in HttpOutcomes : x.kind = "exception" } :
            SendMessage(a, u, o)

PressClearChat == \E a \in AgentKeys : ClearChat(a)

PressClearMemory == ClearMemory

EditToken == \E t \in SidebarTokens : EnterToken(t)

\* The full session.
Next ==
    \/ SendBlank
    \/ clock < MaxSends /\ SendNoCredential
    \/ clock < MaxSends /\ SendHttp200
    \/ clock < MaxSends /\ SendHttpError
    \/ clock < MaxSends /\ SendTransportFailure
    \/ PressClearChat
    \/ PressClearMemory
    \/ EditToken

Spec == Init /\ [][Next]_vars

\* The session in which no credential is ever configured: the environment
\* variable is unset and the token field is left blank.
InitNoCredential == Init /\ env_token = PyNone

NextNoCredential ==
    \/ SendBlank
    \/ clock < MaxHistory /\ SendNoCredential
    \/ PressClearChat
    \/ PressClearMemory

SpecNoCredential == InitNoCredential /\ [][NextNoCredential]_vars

----------------------------------------------------------------------------
(* Vocabulary of the properties *)

Min(a, b) == IF a < b THEN a ELSE b

Last(xs) == xs[Len(xs)]

Front(xs) == SubSeq(xs, 1, Len(xs) - 1)

\* The n most recent elements of xs, oldest first.
LastN(xs, n) == SubSeq(xs, Len(xs) - Min(n, Len(xs)) + 1, Len(xs))

IsPrefix(xs, ys) == Len(xs) <= Len(ys) /\ SubSeq(ys, 1, Len(xs)) = xs

\* The exchanges of persona p in convs, in log order.
RECURSIVE OnlyOf(_, _)
OnlyOf(convs, p) ==
    IF convs = <<>> THEN <<>>
    ELSE IF Head(convs).agent = p
         THEN <<Head(convs)>> \o OnlyOf(Tail(convs), p)
         ELSE OnlyOf(Tail(convs), p)

\* The exchanges of every persona but p in convs, in log order.
RECURSIVE Without(_, _)
Without(convs, p) ==
    IF convs = <<>> THEN <<>>
    ELSE IF Head(convs).agent = p
         THEN Without(Tail(convs), p)
         ELSE <<Head(convs)>> \o Without(Tail(convs), p)

\* The exchanges a persona filter selects (no filter: all of them).
Matching(convs, filter) == IF filter = PyNone THEN convs ELSE OnlyOf(convs, filter)

\* The most recent script run was a Send that got past the blank check.
SendRan == prompt # NoPrompt

----------------------------------------------------------------------------
(* C1 *)

\* C1: for every log, every persona filter (a key or none) and every limit
\* N >= 0, N = 0 included, get_conversation_history returns at most N
\* entries, namely the N most recent matching exchanges, oldest first.
C1_HistoryAtMostLimit ==
    \A filter \in AgentKeys \cup {PyNone}, N \in 0..MaxLimit :
        LET h == get_conversation_history(conversations, filter, N)
        IN  /\ Len(h) <= N
            /\ h = LastN(Matching(conversations, filter), N)

----------------------------------------------------------------------------
(* C2 *)

ClaimResponses == { <<"hi">>, MissingCredentialMessage }

\* C2: add_conversation(p, u, r) followed by get_conversation_history(p, 1)
\* returns exactly the one exchange just appended, whatever the log held;
\* and so does the history of the persona a Send has just appended for.
C2_AppendThenHistoryOne ==
    /\ \A p \in AgentKeys, u \in NonBlankInputs, r \in ClaimResponses :
          get_conversation_history(
              add_conversation(conversations, clock + 1, p, u, r), p, 1)
            = << [timestamp |-> clock + 1, agent |-> p,
                  user_input |-> u, response |-> r] >>
    /\ SendRan =>
          get_conversation_history(conversations, prompt.agent, 1)
            = << [timestamp |-> clock, agent |-> prompt.agent,
                  user_input |-> prompt.user_input,
                  response |-> MissingCredentialMessage] >>

\* A Send for spy has just run on a log that already held an exchange of spy
\* and, after it, one of another persona.
C2_Witness ==
    /\ SendRan
    /\ prompt.agent = "spy"
    /\ Len(conversations) = 3
    /\ conversations[1].agent = "spy"
    /\ conversations[2].agent = "tinker"
    /\ conversations[3].agent = "spy"

----------------------------------------------------------------------------
(* C3 *)

\* C3: Clear Chat for persona p leaves exactly the exchanges of the other
\* personas, unchanged and in their order; Clear Memory leaves the log
\* empty, so that every history is empty afterwards.
C3_Clears ==
    [][ /\ \A p \in AgentKeys :
              ClearChat(p) => conversations' = Without(conversations, p)
        /\ ClearMemory =>
              /\ conversations' = <<>>
              /\ \A filter \in AgentKeys \cup {PyNone}, N \in 0..MaxLimit :
                    get_conversation_history(conversations', filter, N) = <<>>
      ]_vars

\* The second of three exchanges has been removed by a Clear Chat, the first
\* and the third, of another persona, are still there.
C3_Witness ==
    /\ ~SendRan
    /\ clock = 3
    /\ Len(conversations) = 2
    /\ conversations[1].timestamp = 1
    /\ conversations[2].timestamp = 3

----------------------------------------------------------------------------
(* C4 *)

\* C4: with no token configured, a Send with non-blank input issues no HTTP
\* request and appends an exchange whose response is the missing-credential
\* message.
C4_MissingCredential ==
    (SendRan /\ env_token = PyNone /\ sidebar_token = "") =>
        /\ http_posts = 0
        /\ http_status = "none"
        /\ conversations # <<>>
        /\ Last(conversations) =
              [timestamp |-> clock, agent |-> prompt.agent,
               user_input |-> prompt.user_input,
               response |->
                 << "Hugging Face API token not configured. Please add your token to continue." >>]

C4_Witness ==
    /\ SendRan
    /\ env_token = PyNone
    /\ sidebar_token = ""
    /\ http_posts = 0
    /\ Len(conversations) = 2
    /\ Last(conversations).response = MissingCredentialMessage

----------------------------------------------------------------------------
(* C5 *)

\* C5: whatever the inference call does, a Send with non-blank input
\* completes by appending exactly one exchange, for the selected persona
\* and the text typed, whose response is a text.
C5_SendAlwaysAppends ==
    [][ SendRan' =>
          /\ Len(conversations') = Len(conversations) + 1
          /\ Front(conversations') = conversations
          /\ Last(conversations').agent = prompt'.agent
          /\ Last(conversations').user_input = prompt'.user_input
          /\ Last(conversations').response \in Seq(STRING)
      ]_vars

----------------------------------------------------------------------------
(* C6 *)

\* C6: every exchange in the log has an agent key of the registry.
C6_AgentKeysValid ==
    \A i \in 1..Len(conversations) :
        conversations[i].agent \in {"tinker", "tailor", "soldier", "spy", "mr_smiley"}

C6_Witness ==
    /\ Len(conversations) = 2
    /\ conversations[1].agent = "mr_smiley"
    /\ conversations[2].agent = "tinker"
    /\ http_status = "200"

----------------------------------------------------------------------------
(* C7 *)

SendNonBlank ==
    SendNoCredential \/ SendHttp200 \/ SendHttpError \/ SendTransportFailure

\* C7: across a step that is neither Clear Chat nor Clear Memory the old log
\* is a prefix of the new one; a Send with non-blank input extends the log by
\* exactly one exchange; every other action leaves the log as it was.
C7_AppendOnly ==
    [][ /\ ~(PressClearChat \/ PressClearMemory) =>
              IsPrefix(conversations, conversations')
        /\ SendNonBlank =>
              /\ Len(conversations') = Len(conversations) + 1
              /\ Front(conversations') = conversations
        /\ (SendBlank \/ EditToken) => conversations' = conversations
      ]_vars

----------------------------------------------------------------------------
(* C8 *)

\* C8: the context get_agent_prompt embeds for persona p is the last
\* min(2, k) exchanges of p, oldest first, k being the number of exchanges
\* of p in the log; and the prompt a Send built was built so from the log
\* as it was, which the Send then extended by one exchange.
C8_PromptContext ==
    /\ \A p \in AgentKeys, u \in UserInputs :
          LET built == get_agent_prompt(conversations, p, u)
              k     == Len(OnlyOf(conversations, p))
          IN  /\ built.context = LastN(OnlyOf(conversations, p), Min(2, k))
              /\ Len(built.context) <= 2
              /\ \A i \in 1..Len(built.context) : built.context[i].agent = p
              /\ k = 0 => built.context = <<>>
    /\ SendRan =>
          /\ conversations # <<>>
          /\ prompt.context = LastN(OnlyOf(Front(conversations), prompt.agent), 2)

\* A Send for spy has built its prompt on a log holding spy, tinker, spy: the
\* context is the two exchanges of spy.
C8_Witness ==
    /\ SendRan
    /\ prompt.agent = "spy"
    /\ Len(conversations) = 4
    /\ conversations[1].agent = "spy"
    /\ conversations[2].agent = "tinker"
    /\ conversations[3].agent = "spy"
    /\ prompt.context = << conversations[1], conversations[3] >>

----------------------------------------------------------------------------
(* C9 *)

\* C9: after a Send whose POST came back with a status other than 200, the
\* response stored in the appended exchange embeds that status code,
\* whatever the body.
C9_ErrorEmbedsStatus ==
    (SendRan /\ http_status \in {"404", "503"}) =>
        /\ conversations # <<>>
        /\ Last(conversations).timestamp = clock
        /\ Contains(Last(conversations).response, http_status)

----------------------------------------------------------------------------
(* C10 *)

\* C10: a Send issues at most one HTTP POST: one when the input is non-blank
\* and a token is configured, none otherwise, and never a second one after
\* a non-200 status or a transport failure; an exchange appended with a
\* token configured follows the return or failure of that request.
C10_AtMostOnePost ==
    /\ http_posts \in {0, 1}
    /\ ~SendRan => http_posts = 0
    /\ SendRan =>
          http_posts = IF env_token # PyNone \/ sidebar_token # "" THEN 1 ELSE 0
    /\ http_status \in {"404", "503", "exception", "200"} => http_posts = 1
    /\ (SendRan /\ (env_token # PyNone \/ sidebar_token # "")) =>
          http_status \in {"404", "503", "exception", "200"}

\* A Send with a token configured has come back with 503 and appended its
\* exchange after one POST.
C10_Witness ==
    /\ SendRan
    /\ http_status = "503"
    /\ http_posts = 1
    /\ conversations # <<>>
    /\ Last(conversations).timestamp = clock

====
